---- MODULE Spec2Model ----
(***************************************************************************)
(* A model of DJZ-ZeroEDIT: the coordinate-hashing edit prompt generator   *)
(* (DJZ_ZeroEDIT.py), its ComfyUI node entry points with their profile     *)
(* caches, and the two command line tools under Skill/.                    *)
(*                                                                         *)
(* Representation.  TLC's integers are 32-bit signed, so a Python int n>=0 *)
(* is the pair <<hi, lo>> with n = hi * 65536 + lo and lo < 65536.  A      *)
(* uint32 has hi < 65536, a non-negative int32 has hi < 32768.  A string   *)
(* is the sequence of its characters, a byte string the sequence of its    *)
(* bytes.                                                                  *)
(***************************************************************************)
EXTENDS Integers, Sequences, FiniteSets, TLC

VARIABLES
    files,        \* the profiles directory: identifier -> file
    cache,        \* DJZZeroEDIT._profile_cache
    batchCache,   \* DJZZeroEDITBatch._profile_cache
    HAS_XXHASH,   \* whether profile_stats.py could import xxhash
    last,         \* the latest call: its arguments, what it did and its result
    pinned,       \* an earlier call, remembered
    workers       \* the threads inside an entry point: worker -> its frame

vars == <<files, cache, batchCache, HAS_XXHASH, last, pinned, workers>>

\* ------------------------------------------------------------------------
\* 32-bit words
\* ------------------------------------------------------------------------

B16 == 2 ^ 16

B8 == 2 ^ 8

Pow2(k) == 2 ^ k

\* <<hi, lo>> of a number below 2^31
W(n) == <<n \div B16, n % B16>>

\* the uint32 of four little-endian bytes
WordOfBytes(b0, b1, b2, b3) == <<b3 * B8 + b2, b1 * B8 + b0>>

\* the four little-endian bytes of a uint32
BytesOfWord(w) == <<w[2] % B8, w[2] \div B8, w[1] % B8, w[1] \div B8>>

\* (a + b) mod 2^32
Add32(a, b) ==
    <<(a[1] + b[1] + ((a[2] + b[2]) \div B16)) % B16, (a[2] + b[2]) % B16>>

\* the product mod 2^32 of two words given by their bytes x and y, column
\* by column so that no partial product overflows
MulBytes(x, y) ==
    LET c0 == x[1] * y[1]
        c1 == x[1] * y[2] + x[2] * y[1] + (c0 \div B8)
        c2 == x[1] * y[3] + x[2] * y[2] + x[3] * y[1] + (c1 \div B8)
        c3 == x[1] * y[4] + x[2] * y[3] + x[3] * y[2] + x[4] * y[1] + (c2 \div B8)
    IN  WordOfBytes(c0 % B8, c1 % B8, c2 % B8, c3 % B8)

\* (a * b) mod 2^32
Mul32(a, b) == MulBytes(BytesOfWord(a), BytesOfWord(b))

RECURSIVE Xor16(_, _)
Xor16(a, b) ==
    IF a = 0 THEN b
    ELSE IF b = 0 THEN a
    ELSE ((a + b) % 2) + 2 * Xor16(a \div 2, b \div 2)

RECURSIVE And16(_, _)
And16(a, b) ==
    IF a = 0 \/ b = 0 THEN 0
    ELSE ((a % 2) * (b % 2)) + 2 * And16(a \div 2, b \div 2)

Xor32(a, b) == <<Xor16(a[1], b[1]), Xor16(a[2], b[2])>>

And32(a, b) == <<And16(a[1], b[1]), And16(a[2], b[2])>>

Not32(a) == <<B16 - 1 - a[1], B16 - 1 - a[2]>>

\* a | b = ~(~a & ~b)
Or32(a, b) == Not32(And32(Not32(a), Not32(b)))

\* w >> k, 0 < k <= 16
Shr32(w, k) ==
    <<w[1] \div Pow2(k), (w[2] \div Pow2(k)) + (w[1] % Pow2(k)) * Pow2(16 - k)>>

\* the halves s of a word rotated left by r bits, 0 < r < 16
RotlHalves(s, r) ==
    <<((s[1] * Pow2(r)) % B16) + (s[2] \div Pow2(16 - r)),
      ((s[2] * Pow2(r)) % B16) + (s[1] \div Pow2(16 - r))>>

\* w rotated left by k bits, 0 < k < 32
Rotl32(w, k) ==
    IF k = 16 THEN <<w[2], w[1]>>
    ELSE IF k > 16 THEN RotlHalves(<<w[2], w[1]>>, k - 16)
    ELSE RotlHalves(w, k)

\* ------------------------------------------------------------------------
\* xxhash.xxh32
\* ------------------------------------------------------------------------

PRIME32_2 == <<34283, 51831>>

PRIME32_3 == <<49842, 44605>>

PRIME32_4 == <<10196, 60207>>

PRIME32_5 == <<5718, 26545>>

RECURSIVE XXH32Lanes(_, _)
XXH32Lanes(h, data) ==
    IF Len(data) < 4 THEN h
    ELSE XXH32Lanes(
            Mul32(Rotl32(Add32(h, Mul32(WordOfBytes(data[1], data[2], data[3], data[4]),
                                        PRIME32_3)),
                         17),
                  PRIME32_4),
            SubSeq(data, 5, Len(data)))

\* h ^= h >> k; h *= prime
XXH32Mix(h, k, prime) == Mul32(Xor32(h, Shr32(h, k)), prime)

\* h ^= h >> k
XXH32Fold(h, k) == Xor32(h, Shr32(h, k))

XXH32Avalanche(h) ==
    XXH32Fold(XXH32Mix(XXH32Mix(h, 15, PRIME32_2), 13, PRIME32_3), 16)

\* the digest of a byte string shorter than 16 bytes whose length is a
\* multiple of 4 (all that struct.pack('<ii', ...) produces)
XXH32Digest(seed, data) ==
    XXH32Avalanche(XXH32Lanes(Add32(Add32(seed, PRIME32_5), W(Len(data))), data))

\* ------------------------------------------------------------------------
\* hashlib.md5
\* ------------------------------------------------------------------------

MD5S ==
    <<7, 12, 17, 22, 7, 12, 17, 22, 7, 12, 17, 22, 7, 12, 17, 22,
      5, 9, 14, 20, 5, 9, 14, 20, 5, 9, 14, 20, 5, 9, 14, 20,
      4, 11, 16, 23, 4, 11, 16, 23, 4, 11, 16, 23, 4, 11, 16, 23,
      6, 10, 15, 21, 6, 10, 15, 21, 6, 10, 15, 21, 6, 10, 15, 21>>

\* floor(2^32 * |sin(i + 1)|)
MD5K ==
    <<
      <<55146, 42104>>, <<59591, 46934>>, <<9248, 28891>>, <<49597, 52974>>,
      <<62844, 4015>>, <<18311, 50730>>, <<43056, 17939>>, <<64838, 38145>>,
      <<27008, 39128>>, <<35652, 63407>>, <<65535, 23473>>, <<35164, 55230>>,
      <<27536, 4386>>, <<64920, 29075>>, <<42617, 17294>>, <<18868, 2081>>,
      <<63006, 9570>>, <<49216, 45888>>, <<9822, 23121>>, <<59830, 51114>>,
      <<54831, 4189>>, <<580, 5203>>, <<55457, 59009>>, <<59347, 64456>>,
      <<8673, 52710>>, <<49975, 2006>>, <<62677, 3463>>, <<17754, 5357>>,
      <<43491, 59653>>, <<64751, 41976>>, <<26479, 729>>, <<36138, 19594>>,
      <<65530, 14658>>, <<34673, 63105>>, <<28061, 24866>>, <<64997, 14348>>,
      <<42174, 59972>>, <<19422, 53161>>, <<63163, 19296>>, <<48831, 48240>>,
      <<10395, 32454>>, <<60065, 10234>>, <<54511, 12421>>, <<1160, 7429>>,
      <<55764, 53305>>, <<59099, 39397>>, <<8098, 31992>>, <<50348, 22117>>,
      <<62505, 8772>>, <<17194, 65431>>, <<43924, 9127>>, <<64659, 41017>>,
      <<25947, 22979>>, <<36620, 52370>>, <<65519, 62589>>, <<34180, 24017>>,
      <<28584, 32335>>, <<65068, 59104>>, <<41729, 17172>>, <<19976, 4513>>,
      <<63315, 32386>>, <<48442, 62005>>, <<10967, 53947>>, <<60294, 54161>>
    >>

\* 0x67452301, 0xefcdab89, 0x98badcfe, 0x10325476
MD5Start == << <<26437, 8961>>, <<61389, 43913>>, <<39098, 56574>>, <<4146, 21622>> >>

\* the one 64-byte block of a message shorter than 56 bytes
MD5Pad(data) ==
    data \o <<128>> \o [j \in 1..(55 - Len(data)) |-> 0]
         \o <<(Len(data) * 8) % B8, (Len(data) * 8) \div B8, 0, 0, 0, 0, 0, 0>>

MD5Words(block) ==
    [j \in 1..16 |->
        WordOfBytes(block[4 * j - 3], block[4 * j - 2], block[4 * j - 1], block[4 * j])]

MD5F(i, b, c, d) ==
    IF i < 16 THEN Or32(And32(b, c), And32(Not32(b), d))
    ELSE IF i < 32 THEN Or32(And32(d, b), And32(Not32(d), c))
    ELSE IF i < 48 THEN Xor32(Xor32(b, c), d)
    ELSE Xor32(c, Or32(b, Not32(d)))

MD5G(i) ==
    IF i < 16 THEN i
    ELSE IF i < 32 THEN (5 * i + 1) % 16
    ELSE IF i < 48 THEN (3 * i + 5) % 16
    ELSE (7 * i) % 16

\* round i on the state <<a, b, c, d>> with the message words m
MD5Step(i, a, b, c, d, m) ==
    <<d,
      Add32(b, Rotl32(Add32(Add32(Add32(MD5F(i, b, c, d), a), MD5K[i + 1]),
                            m[MD5G(i) + 1]),
                      MD5S[i + 1])),
      b,
      c>>

\* rounds i..63; s is looked at in each round, so that a round is computed
\* before the next one starts
RECURSIVE MD5Rounds(_, _, _)
MD5Rounds(i, s, m) ==
    IF i = 64 \/ Len(s) # 4 THEN s
    ELSE MD5Rounds(i + 1, MD5Step(i, s[1], s[2], s[3], s[4], m), m)

MD5Finish(s) ==
    BytesOfWord(Add32(MD5Start[1], s[1])) \o BytesOfWord(Add32(MD5Start[2], s[2]))
        \o BytesOfWord(Add32(MD5Start[3], s[3])) \o BytesOfWord(Add32(MD5Start[4], s[4]))

\* the 16 digest bytes of a message shorter than 56 bytes
MD5Digest(data) == MD5Finish(MD5Rounds(0, MD5Start, MD5Words(MD5Pad(data))))

\* ------------------------------------------------------------------------
\* Python values and outcomes
\* ------------------------------------------------------------------------

\* what a call does: it returns val (exc = "none") or raises exc
Ok(v) == [exc |-> "none", val |-> v]

Raise(e, v) == [exc |-> e, val |-> v]

\* parsed JSON: t is the Python type json.load gives it; a JSON string is
\* the sequence of its characters
JList(items) == [t |-> "list", v |-> items]

JDict(pairs) == [t |-> "dict", v |-> pairs]

JInt(n) == [t |-> "int", v |-> n]

\* a dict is kept as the sequence of its <<key, value>> in insertion order
HasKey(pairs, k) == \E i \in 1..Len(pairs) : pairs[i][1] = k

Get(pairs, k) == pairs[CHOOSE i \in 1..Len(pairs) : pairs[i][1] = k][2]

\* len(x) of a list or a dict
PyLen(x) == Len(x.v)

\* str.replace(old, new), old not empty: every non-overlapping occurrence,
\* found left to right
RECURSIVE Replace(_, _, _)
Replace(s, old, new) ==
    IF Len(s) < Len(old) THEN s
    ELSE IF SubSeq(s, 1, Len(old)) = old
         THEN new \o Replace(SubSeq(s, Len(old) + 1, Len(s)), old, new)
         ELSE <<s[1]>> \o Replace(Tail(s), old, new)

Digits == {"0", "1", "2", "3", "4", "5", "6", "7", "8", "9"}

UpperCase ==
    <<"A", "B", "C", "D", "E", "F", "G", "H", "I", "J", "K", "L", "M",
      "N", "O", "P", "Q", "R", "S", "T", "U", "V", "W", "X", "Y", "Z">>

LowerCase ==
    <<"a", "b", "c", "d", "e", "f", "g", "h", "i", "j", "k", "l", "m",
      "n", "o", "p", "q", "r", "s", "t", "u", "v", "w", "x", "y", "z">>

\* the characters \w matches, among those of the model's strings
WordChars ==
    {UpperCase[k] : k \in 1..Len(UpperCase)} \cup {LowerCase[k] : k \in 1..Len(LowerCase)}
        \cup Digits \cup {"_"}

\* a lower() that folds no letter
LowerCharSame(c) == c

\* c.lower() of one character
LowerChar(c) ==
    IF \E k \in 1..Len(UpperCase) : UpperCase[k] = c
    THEN LowerCase[CHOOSE k \in 1..Len(UpperCase) : UpperCase[k] = c]
    ELSE c

\* s.lower()
Lower(s) == [j \in 1..Len(s) |-> LowerChar(s[j])]

\* s.strip() == '': every character is one that str.strip() removes
IsBlank(s) == \A j \in 1..Len(s) : s[j] \in {" ", "\t", "\n", "\r"}

\* the first position j >= 2 of s holding c, or 0
FirstAfterOpen(s, c) ==
    IF \E j \in 2..Len(s) : s[j] = c
    THEN CHOOSE j \in 2..Len(s) : s[j] = c /\ \A k \in 2..(j - 1) : s[k] # c
    ELSE 0

Prepend(x, outcome) ==
    IF outcome.exc = "none" THEN Ok(x \o outcome.val) ELSE outcome

\* template.format(**components) for templates whose fields are plain names
\* (no conversion, format spec, attribute or index): text is copied, {{ and
\* }} are the escaped braces, {name} is components[name]; the first problem
\* met from the left is the one raised
RECURSIVE Format(_, _)
Format(t, components) ==
    IF t = <<>> THEN Ok(<<>>)
    ELSE IF t[1] = "}"
    THEN IF Len(t) >= 2 /\ t[2] = "}"
         THEN Prepend(<<"}">>, Format(SubSeq(t, 3, Len(t)), components))
         ELSE Raise("ValueError", <<>>)
    ELSE IF t[1] = "{"
    THEN IF Len(t) >= 2 /\ t[2] = "{"
         THEN Prepend(<<"{">>, Format(SubSeq(t, 3, Len(t)), components))
         ELSE LET close == FirstAfterOpen(t, "}")
                  open  == FirstAfterOpen(t, "{")
              IN  IF close = 0 \/ (open # 0 /\ open < close)
                  THEN Raise("ValueError", <<>>)
                  ELSE LET name == SubSeq(t, 2, close - 1)
                       IN  IF \A j \in 1..Len(name) : name[j] \in Digits
                           THEN Raise("IndexError", name)
                           ELSE IF ~HasKey(components, name)
                           THEN Raise("KeyError", name)
                           ELSE Prepend(Get(components, name),
                                        Format(SubSeq(t, close + 1, Len(t)), components))
    ELSE Prepend(<<t[1]>>, Format(Tail(t), components))

\* the end of the match of \{(\w+)\} that starts at s[1], or 0
PlaceholderEnd(s) ==
    IF Len(s) >= 3 /\ s[1] = "{" /\ s[2] \in WordChars
    THEN LET close == CHOOSE j \in 3..(Len(s) + 1) :
                         /\ j = Len(s) + 1 \/ s[j] \notin WordChars
                         /\ \A k \in 3..(j - 1) : s[k] \in WordChars
         IN  IF close <= Len(s) /\ s[close] = "}" THEN close ELSE 0
    ELSE 0

\* re.compile(r'\{(\w+)\}').findall(s)
RECURSIVE FindPlaceholders(_)
FindPlaceholders(s) ==
    IF s = <<>> THEN <<>>
    ELSE IF PlaceholderEnd(s) = 0 THEN FindPlaceholders(Tail(s))
    ELSE <<SubSeq(s, 2, PlaceholderEnd(s) - 1)>>
            \o FindPlaceholders(SubSeq(s, PlaceholderEnd(s) + 1, Len(s)))

\* str(n).encode(): the ASCII codes of the decimal digits of n, the last
\* being n % 10 and the ones before those of n \div 10
RECURSIVE StrBytes(_)
StrBytes(n) ==
    IF n[1] = 0 /\ n[2] < 10 THEN <<48 + n[2]>>
    ELSE StrBytes(<<n[1] \div 10, (((n[1] % 10) * B16) + n[2]) \div 10>>)
            \o <<48 + ((((n[1] % 10) * B16) + n[2]) % 10)>>

\* int(hexdigest, 16) % n of the digest bytes from position j on, r being
\* the remainder of the bytes before j
RECURSIVE DigestMod(_, _, _, _)
DigestMod(digest, j, r, n) ==
    IF j > Len(digest) THEN r
    ELSE DigestMod(digest, j + 1, (r * B8 + digest[j]) % n, n)

\* n + i, as start_index + i
AddSmall(n, i) == <<n[1] + ((n[2] + i) \div B16), (n[2] + i) % B16>>

\* seed & 0xFFFFFFFF
Mask32(n) == <<n[1] % B16, n[2]>>

\* struct.pack's 'i' takes -2^31 .. 2^31 - 1
FitsInt32(n) == n[1] < 32768

\* struct.pack('<' + 'i' * len(coords), *coords) of coords that fit
RECURSIVE struct_pack(_)
struct_pack(coords) ==
    IF coords = <<>> THEN <<>>
    ELSE BytesOfWord(coords[1]) \o struct_pack(Tail(coords))

\* ------------------------------------------------------------------------
\* The profiles directory
\* ------------------------------------------------------------------------

\* "default-EDIT.json"
DefaultId ==
    <<"d", "e", "f", "a", "u", "l", "t", "-", "E", "D", "I", "T", ".", "j",
      "s", "o", "n">>

\* "custom.json"
CustomId ==
    <<"c", "u", "s", "t", "o", "m", ".", "j", "s", "o", "n">>

\* "[Error loading profile '"
ErrorOpen ==
    <<"[", "E", "r", "r", "o", "r", " ", "l", "o", "a", "d", "i", "n", "g",
      " ", "p", "r", "o", "f", "i", "l", "e", " ", "'">>

\* "': "
ErrorMid ==
    <<"'", ":", " ">>

\* "]"
ErrorClose ==
    <<"]">>

\* "Profile not found: "
NotFoundText ==
    <<"P", "r", "o", "f", "i", "l", "e", " ", "n", "o", "t", " ", "f", "o",
      "u", "n", "d", ":", " ">>

\* "Profile "
ProfileText ==
    <<"P", "r", "o", "f", "i", "l", "e", " ">>

\* " missing 'templates' field"
MissingTemplatesText ==
    <<" ", "m", "i", "s", "s", "i", "n", "g", " ", "'", "t", "e", "m", "p",
      "l", "a", "t", "e", "s", "'", " ", "f", "i", "e", "l", "d">>

\* " missing 'pools' field"
MissingPoolsText ==
    <<" ", "m", "i", "s", "s", "i", "n", "g", " ", "'", "p", "o", "o", "l",
      "s", "'", " ", "f", "i", "e", "l", "d">>

\* "Expecting value: line 1 column 1 (char 0)"
ExpectingValueText ==
    <<"E", "x", "p", "e", "c", "t", "i", "n", "g", " ", "v", "a", "l", "u",
      "e", ":", " ", "l", "i", "n", "e", " ", "1", " ", "c", "o", "l", "u",
      "m", "n", " ", "1", " ", "(", "c", "h", "a", "r", " ", "0", ")">>

\* "[ERROR: Missing pool '"
MissingPoolOpen ==
    <<"[", "E", "R", "R", "O", "R", ":", " ", "M", "i", "s", "s", "i", "n",
      "g", " ", "p", "o", "o", "l", " ", "'">>

\* "']"
MissingPoolClose ==
    <<"'", "]">>

\* "A {x} B {y}"
TemplateAxBy ==
    <<"A", " ", "{", "x", "}", " ", "B", " ", "{", "y", "}">>

\* "C {y}"
TemplateCy ==
    <<"C", " ", "{", "y", "}">>

\* "A {x} B {z}"
TemplateAxBz ==
    <<"A", " ", "{", "x", "}", " ", "B", " ", "{", "z", "}">>

\* "A {x}"
TemplateAx ==
    <<"A", " ", "{", "x", "}">>

Ids == {DefaultId, CustomId}

Meta == <<"m">>

PoolX == <<<<"x">>, JList(<< <<"p">>, <<"q">> >>)>>

PoolY == <<<<"y">>, JList(<< <<"r">>, <<"s">>, <<"t">> >>)>>

\* a profile as json.load returns it
Profile(templates, pools) ==
    [t |-> "dict",
     v |-> [name |-> Meta, description |-> Meta, version |-> Meta,
            templates |-> templates, pools |-> pools]]

\* two templates, two pools, every placeholder defined
GoodProfile == Profile(JList(<<TemplateAxBy, TemplateCy>>), JDict(<<PoolX, PoolY>>))

\* a template names the pool z, which is not defined
UndefProfile == Profile(JList(<<TemplateAxBz>>), JDict(<<PoolX>>))

EmptyTemplatesProfile == Profile(JList(<<>>), JDict(<<PoolX>>))

EmptyPoolProfile == Profile(JList(<<TemplateAx>>), JDict(<< <<<<"x">>, JList(<<>>)>> >>))

\* "p" and "P" in one pool
DuplicateProfile ==
    Profile(JList(<<TemplateAx>>), JDict(<< <<<<"x">>, JList(<< <<"p">>, <<"P">> >>)>> >>))

\* the entry " " in a pool
BlankProfile ==
    Profile(JList(<<TemplateAx>>), JDict(<< <<<<"x">>, JList(<< <<"p">>, <<" ">> >>)>> >>))

\* "templates": 5
TemplatesIntProfile == Profile(JInt(5), JDict(<<PoolX>>))

\* "pools": []
PoolsListProfile == Profile(JList(<<TemplateAx>>), JList(<<>>))

NoPoolsProfile ==
    [t |-> "dict",
     v |-> [name |-> Meta, description |-> Meta, version |-> Meta,
            templates |-> JList(<<TemplateAx>>)]]

NoTemplatesProfile ==
    [t |-> "dict",
     v |-> [name |-> Meta, description |-> Meta, version |-> Meta,
            pools |-> JDict(<<PoolX>>)]]

\* a file is absent, holds text json.load rejects (value: the message of
\* its JSONDecodeError), or holds JSON (value: what json.load returns)
Absent == [kind |-> "absent", value |-> <<>>]

\* an empty file
Malformed == [kind |-> "text", value |-> ExpectingValueText]

Json(doc) == [kind |-> "json", value |-> doc]

\* what custom.json may hold
CustomVariants ==
    {"good", "undef", "empty templates", "empty pool", "duplicate", "blank",
     "templates int", "pools list", "no pools", "no templates", "malformed",
     "top int", "absent"}

CustomFile(variant) ==
    CASE variant = "good" -> Json(GoodProfile)
      [] variant = "undef" -> Json(UndefProfile)
      [] variant = "empty templates" -> Json(EmptyTemplatesProfile)
      [] variant = "empty pool" -> Json(EmptyPoolProfile)
      [] variant = "duplicate" -> Json(DuplicateProfile)
      [] variant = "blank" -> Json(BlankProfile)
      [] variant = "templates int" -> Json(TemplatesIntProfile)
      [] variant = "pools list" -> Json(PoolsListProfile)
      [] variant = "no pools" -> Json(NoPoolsProfile)
      [] variant = "no templates" -> Json(NoTemplatesProfile)
      [] variant = "malformed" -> Malformed
      [] variant = "top int" -> Json(JInt(5))
      [] variant = "absent" -> Absent

\* the directory: default-EDIT.json is the good profile, custom.json varies
Directory(variant) ==
    [id \in Ids |-> IF id = DefaultId THEN Json(GoodProfile)
                    ELSE CustomFile(variant)]

\* ------------------------------------------------------------------------
\* The inputs of the model
\* ------------------------------------------------------------------------

\* 42 and 0xFFFFFFFF
Seeds == {W(42), <<65535, 65535>>}

\* 0, 2^31 - 1 and 2^31
Indices == {W(0), <<32767, 65535>>, <<32768, 0>>}

MaxBatch == 2

\* validate_profile.generate_test_output's count
TestCount == 5

\* the indices the command line tools are run on
ToolIndices == {W(k) : k \in 0..(TestCount - 1)}

\* the slots of the profiles above: 0 and one per pool
Slots == 0..Len(GoodProfile.v.pools.v)

\* <<prefix, suffix>>
Affixes == {<< <<>>, <<>> >>, << <<"<">>, <<">">> >>}

\* every <<index, slot>> the model hashes
Coords ==
    {<<index, W(slot)>> :
        index \in {n \in ToolIndices \cup {AddSmall(m, i) : m \in Indices, i \in 0..MaxBatch} :
                      FitsInt32(n)},
        slot \in Slots}

\* the coordinates the command line tools hash
ToolCoords == {<<index, W(slot)>> : index \in ToolIndices, slot \in Slots}

\* sep.join(str(c) for c in coords).encode()
RECURSIVE JoinBytes(_, _)
JoinBytes(coords, sep) ==
    IF coords = <<>> THEN <<>>
    ELSE IF Len(coords) = 1 THEN StrBytes(coords[1])
    ELSE StrBytes(coords[1]) \o <<sep>> \o JoinBytes(Tail(coords), sep)

\* the digests of the model's inputs, computed once: the hashes are pure
\* functions, and XXH32 and MD5 look a listed input up
XXH32Memo ==
    [key \in {<<Mask32(seed), struct_pack(coords)>> : seed \in Seeds, coords \in Coords} |->
        XXH32Digest(key[1], key[2])]

MD5Memo ==
    [data \in {JoinBytes(<<seed>> \o coords, sep) :
                  seed \in Seeds, coords \in ToolCoords, sep \in {45, 58}} |->
        MD5Digest(data)]

\* xxhash.xxh32(data, seed=seed).intdigest()
XXH32(seed, data) ==
    IF <<seed, data>> \in DOMAIN XXH32Memo THEN XXH32Memo[<<seed, data>>]
    ELSE XXH32Digest(seed, data)

\* hashlib.md5(data).digest()
MD5(data) ==
    IF data \in DOMAIN MD5Memo THEN MD5Memo[data] ELSE MD5Digest(data)

\* ------------------------------------------------------------------------
\* DJZ_ZeroEDIT.py: hashing and generation
\* ------------------------------------------------------------------------

edit_hash(seed, coords) ==
    IF \E i \in 1..Len(coords) : ~FitsInt32(coords[i])
    THEN Raise("struct.error", <<>>)
    ELSE Ok(XXH32(Mask32(seed), struct_pack(coords)))

\* a selection that looks at the low half of h only
hash_to_index_low(h, pool_size) == h[2] % pool_size

\* a selection that moves with the number of profiles the batch node holds
hash_to_index_held(h, pool_size) ==
    ((h[1] % pool_size) * B16 + h[2] + Cardinality(DOMAIN batchCache)) % pool_size

\* h % pool_size, for a uint32 h and 0 < pool_size <= 2^15
hash_to_index(h, pool_size) == ((h[1] % pool_size) * B16 + h[2]) % pool_size

\* line 135: templates[hash_to_index(template_hash, len(templates))]
SelectTemplate(templates, template_hash) ==
    IF template_hash.exc # "none" THEN template_hash
    ELSE IF templates.t \notin {"list", "dict"} THEN Raise("TypeError", <<>>)
    ELSE IF PyLen(templates) = 0 THEN Raise("ZeroDivisionError", <<>>)
    ELSE IF templates.t = "dict" THEN Raise("KeyError", <<>>)
    ELSE Ok(templates.v[hash_to_index(template_hash.val, PyLen(templates)) + 1])

\* lines 140-141: one round of the loop over pools.items()
SelectComponent(components, key, pool, component_hash) ==
    IF components.exc # "none" THEN components
    ELSE IF component_hash.exc # "none" THEN component_hash
    ELSE IF pool.t \notin {"list", "dict"} THEN Raise("TypeError", <<>>)
    ELSE IF PyLen(pool) = 0 THEN Raise("ZeroDivisionError", <<>>)
    ELSE IF pool.t = "dict" THEN Raise("KeyError", <<>>)
    ELSE Ok(Append(components.val,
                   <<key, pool.v[hash_to_index(component_hash.val, PyLen(pool)) + 1]>>))

\* a loop whose slots are counted from 0, the template's own slot
RECURSIVE SelectComponentsFromZero(_, _, _, _)
SelectComponentsFromZero(seed, prompt_idx, pools, n) ==
    IF n = 0 THEN Ok(<<>>)
    ELSE SelectComponent(SelectComponentsFromZero(seed, prompt_idx, pools, n - 1),
                         pools[n][1], pools[n][2],
                         edit_hash(seed, <<prompt_idx, W(n - 1)>>))

\* lines 138-141: the components of the first n pools, or the first
\* exception met
RECURSIVE SelectComponents(_, _, _, _)
SelectComponents(seed, prompt_idx, pools, n) ==
    IF n = 0 THEN Ok(<<>>)
    ELSE SelectComponent(SelectComponents(seed, prompt_idx, pools, n - 1),
                         pools[n][1], pools[n][2],
                         edit_hash(seed, <<prompt_idx, W(n)>>))

\* components.get(key, f"[{key}]")
GetOrMarker(components, key) ==
    IF HasKey(components, key) THEN Get(components, key)
    ELSE <<"[">> \o key \o <<"]">>

\* lines 148-149: the loop over pools.keys(), its first n rounds
RECURSIVE ReplaceKeys(_, _, _, _)
ReplaceKeys(template, components, pools, n) ==
    IF n = 0 THEN template
    ELSE Replace(ReplaceKeys(template, components, pools, n - 1),
                 <<"{">> \o pools[n][1] \o <<"}">>,
                 GetOrMarker(components, pools[n][1]))

\* lines 144-150: try: template.format(**components) except KeyError
FormatOrReplace(formatted, template, components, pools) ==
    IF formatted.exc = "KeyError"
    THEN Ok(ReplaceKeys(template, components, pools, Len(pools)))
    ELSE formatted

\* lines 138-150, once the template is selected
Render(template, components, pools) ==
    IF components.exc # "none" THEN components
    ELSE FormatOrReplace(Format(template, components.val), template, components.val, pools)

\* lines 138-150
SelectAndRender(template, pools, seed, prompt_idx) ==
    IF template.exc # "none" THEN template
    ELSE IF pools.t # "dict" THEN Raise("AttributeError", <<>>)
    ELSE Render(template.val, SelectComponents(seed, prompt_idx, pools.v, Len(pools.v)),
                pools.v)

generate_edit_prompt(seed, prompt_idx, profile) ==
    IF profile.t # "dict" THEN Raise("TypeError", <<>>)
    ELSE IF "templates" \notin DOMAIN profile.v THEN Raise("KeyError", <<>>)
    ELSE IF "pools" \notin DOMAIN profile.v THEN Raise("KeyError", <<>>)
    ELSE SelectAndRender(
            SelectTemplate(profile.v.templates, edit_hash(seed, <<prompt_idx, W(0)>>)),
            profile.v.pools, seed, prompt_idx)

\* DJZ_ZeroEDIT.load_profile, reading the directory dir
load_profile(dir, profile_name) ==
    IF dir[profile_name].kind = "absent"
    THEN Raise("FileNotFoundError", NotFoundText \o profile_name)
    ELSE IF dir[profile_name].kind = "text"
    THEN Raise("JSONDecodeError", dir[profile_name].value)
    ELSE IF dir[profile_name].value.t # "dict"
    THEN Raise("TypeError", <<>>)
    ELSE IF "templates" \notin DOMAIN dir[profile_name].value.v
    THEN Raise("ValueError", ProfileText \o profile_name \o MissingTemplatesText)
    ELSE IF "pools" \notin DOMAIN dir[profile_name].value.v
    THEN Raise("ValueError", ProfileText \o profile_name \o MissingPoolsText)
    ELSE Ok(dir[profile_name].value)

\* ord(c), for the characters of file names
CodePoint(c) ==
    IF c = "-" THEN 45
    ELSE IF c = "." THEN 46
    ELSE IF c \in Digits THEN 48 + (CHOOSE d \in 0..9 : ToString(d) = c)
    ELSE IF \E k \in 1..Len(UpperCase) : UpperCase[k] = c
    THEN 64 + (CHOOSE k \in 1..Len(UpperCase) : UpperCase[k] = c)
    ELSE IF c = "_" THEN 95
    ELSE 96 + (CHOOSE k \in 1..Len(LowerCase) : LowerCase[k] = c)

\* a < b of two str: the first differing character decides, a proper
\* prefix is smaller
RECURSIVE StrLess(_, _)
StrLess(a, b) ==
    IF b = <<>> THEN FALSE
    ELSE IF a = <<>> THEN TRUE
    ELSE IF Head(a) # Head(b) THEN CodePoint(Head(a)) < CodePoint(Head(b))
    ELSE StrLess(Tail(a), Tail(b))

\* sorted(names) of a set of distinct str
RECURSIVE Sorted(_)
Sorted(names) ==
    IF names = {} THEN <<>>
    ELSE <<CHOOSE m \in names : \A n \in names \ {m} : StrLess(m, n)>>
            \o Sorted({n \in names : \E m \in names : StrLess(m, n)})

\* ".json"
JsonSuffix == <<".", "j", "s", "o", "n">>

\* lines 51-54: the names of profiles_dir.glob("*.json") that are files; a
\* listing gives each name of the directory as "file" or "dir"
GlobFiles(listing) ==
    {name \in DOMAIN listing.entries :
        /\ listing.entries[name] = "file"
        /\ Len(name) >= Len(JsonSuffix)
        /\ SubSeq(name, Len(name) - Len(JsonSuffix) + 1, Len(name)) = JsonSuffix}

\* the sorted names left as they are
DefaultInPlace(profiles) == profiles

\* lines 57-59: default-EDIT.json moved to the front
DefaultFirst(profiles) ==
    IF \E i \in 1..Len(profiles) : profiles[i] = DefaultId
    THEN <<DefaultId>> \o SelectSeq(profiles, LAMBDA name : name # DefaultId)
    ELSE profiles

\* line 61: return profiles if profiles else ["default-EDIT.json"]
OrDefault(profiles) == IF profiles # <<>> THEN profiles ELSE <<DefaultId>>

\* DJZ_ZeroEDIT.discover_profiles on a listing of the profiles directory
discover_profiles(listing) ==
    IF ~listing.exists THEN <<DefaultId>>
    ELSE OrDefault(DefaultFirst(Sorted(GlobFiles(listing))))

\* lines 47-48: an absent directory is made, empty
DirectoryAfter(listing) ==
    IF listing.exists THEN listing ELSE [exists |-> TRUE, entries |-> <<>>]

\* ------------------------------------------------------------------------
\* Skill/profile_stats.py
\* ------------------------------------------------------------------------

\* a Python int h reduced mod n: h is a uint32 <<hi, lo>> or, for
\* int(hexdigest, 16), the 16 bytes of the digest
IntMod(h, n) ==
    IF Len(h) = 2 THEN ((h[1] % n) * B16 + h[2]) % n
    ELSE DigestMod(h, 1, 0, n)

hash_coords(seed, coords) ==
    IF HAS_XXHASH
    THEN IF \E i \in 1..Len(coords) : ~FitsInt32(coords[i])
         THEN Raise("struct.error", <<>>)
         ELSE Ok(XXH32(Mask32(seed), struct_pack(coords)))
    ELSE Ok(MD5(StrBytes(seed) \o <<58>> \o JoinBytes(coords, 58)))

\* line 49: templates[template_hash % len(templates)]
StatsTemplate(templates, template_hash) ==
    IF template_hash.exc # "none" THEN template_hash
    ELSE IF templates.t \notin {"list", "dict"} THEN Raise("TypeError", <<>>)
    ELSE IF PyLen(templates) = 0 THEN Raise("ZeroDivisionError", <<>>)
    ELSE IF templates.t = "dict" THEN Raise("KeyError", <<>>)
    ELSE Ok(templates.v[IntMod(template_hash.val, PyLen(templates)) + 1])

\* lines 54-55: one round of the loop over pools.items()
StatsComponent(components, key, pool, comp_hash) ==
    IF components.exc # "none" THEN components
    ELSE IF comp_hash.exc # "none" THEN comp_hash
    ELSE IF pool.t \notin {"list", "dict"} THEN Raise("TypeError", <<>>)
    ELSE IF PyLen(pool) = 0 THEN Raise("ZeroDivisionError", <<>>)
    ELSE IF pool.t = "dict" THEN Raise("KeyError", <<>>)
    ELSE Ok(Append(components.val, <<key, pool.v[IntMod(comp_hash.val, PyLen(pool)) + 1]>>))

RECURSIVE StatsComponents(_, _, _, _)
StatsComponents(seed, idx, pools, n) ==
    IF n = 0 THEN Ok(<<>>)
    ELSE StatsComponent(StatsComponents(seed, idx, pools, n - 1),
                        pools[n][1], pools[n][2], hash_coords(seed, <<idx, W(n)>>))

\* lines 52-63, once the template is selected
StatsRender(template, pools, seed, idx) ==
    IF template.exc # "none" THEN template
    ELSE IF pools.t # "dict" THEN Raise("AttributeError", <<>>)
    ELSE Render(template.val, StatsComponents(seed, idx, pools.v, Len(pools.v)), pools.v)

generate_prompt(seed, idx, profile) ==
    IF profile.t # "dict" THEN Raise("TypeError", <<>>)
    ELSE IF "templates" \notin DOMAIN profile.v THEN Raise("KeyError", <<>>)
    ELSE IF "pools" \notin DOMAIN profile.v THEN Raise("KeyError", <<>>)
    ELSE StatsRender(
            StatsTemplate(profile.v.templates, hash_coords(seed, <<idx, W(0)>>)),
            profile.v.pools, seed, idx)

\* ------------------------------------------------------------------------
\* Skill/validate_profile.py
\* ------------------------------------------------------------------------

\* d.get(k, default) of a dict held as a record
GetField(d, k, default) == IF k \in DOMAIN d THEN d[k] ELSE default

\* the positions 1..n, in order
Positions(n) == [j \in 1..n |-> j]

required_fields == <<"name", "description", "version", "templates", "pools">>

\* lines 35-37
MissingFields(d) ==
    LET missing == SelectSeq(required_fields, LAMBDA field : field \notin DOMAIN d)
    IN  [j \in 1..Len(missing) |-> <<"Missing required field", missing[j]>>]

\* lines 39-43
TemplatesShape(d) ==
    IF "templates" \notin DOMAIN d THEN <<>>
    ELSE IF d.templates.t # "list" THEN << <<"'templates' must be a list">> >>
    ELSE IF PyLen(d.templates) = 0 THEN << <<"'templates' cannot be empty">> >>
    ELSE <<>>

\* lines 45-47
PoolsShape(d) ==
    IF "pools" \in DOMAIN d /\ d.pools.t # "dict"
    THEN << <<"'pools' must be a dictionary">> >>
    ELSE <<>>

validate_structure(profile) ==
    IF profile.t # "dict" THEN Raise("TypeError", <<>>)
    ELSE Ok(MissingFields(profile.v) \o TemplatesShape(profile.v) \o PoolsShape(profile.v))

\* not pool_items
Falsy(x) ==
    \/ x.t \in {"list", "dict"} /\ Len(x.v) = 0
    \/ x.t = "int" /\ x.v = 0

\* lines 69-74, for the strings items
DuplicateFindings(pool_name, items) ==
    LET again == SelectSeq(Positions(Len(items)),
                           LAMBDA j : \E i \in 1..(j - 1) : Lower(items[i]) = Lower(items[j]))
    IN  [k \in 1..Len(again) |-> <<"Duplicate entry in pool", pool_name, items[again[k]]>>]

\* lines 77-79, for the strings items
BlankFindings(pool_name, items) ==
    LET blank == SelectSeq(Positions(Len(items)), LAMBDA j : IsBlank(items[j]))
    IN  [k \in 1..Len(blank) |-> <<"Empty string at index", blank[k] - 1, pool_name>>]

\* lines 58-79: one round of the loop over pools.items()
PoolFindings(pool_name, pool_items) ==
    IF Falsy(pool_items) THEN << <<"Pool is empty", pool_name>> >>
    ELSE IF pool_items.t # "list" THEN << <<"Pool must be a list", pool_name>> >>
    ELSE DuplicateFindings(pool_name, pool_items.v) \o BlankFindings(pool_name, pool_items.v)

RECURSIVE PoolsFindings(_, _)
PoolsFindings(pools, n) ==
    IF n = 0 THEN <<>>
    ELSE PoolsFindings(pools, n - 1) \o PoolFindings(pools[n][1], pools[n][2])

\* lines 55-81, given pools
ValidatePools(pools) ==
    IF pools.t # "dict" THEN Raise("AttributeError", <<>>)
    ELSE Ok(PoolsFindings(pools.v, Len(pools.v)))

validate_pools(profile) ==
    IF profile.t # "dict" THEN Raise("AttributeError", <<>>)
    ELSE ValidatePools(GetField(profile.v, "pools", JDict(<<>>)))

\* lines 99-105: one round of the loop over templates, i counted from 0
TemplateFindings(i, template, pools) ==
    LET undefined == SelectSeq(FindPlaceholders(template), LAMBDA name : ~HasKey(pools, name))
    IN  [k \in 1..Len(undefined) |-> <<"Template references undefined pool", i, undefined[k]>>]

RECURSIVE TemplatesFindings(_, _, _)
TemplatesFindings(templates, pools, n) ==
    IF n = 0 THEN <<>>
    ELSE TemplatesFindings(templates, pools, n - 1)
            \o TemplateFindings(n - 1, templates[n], pools)

\* lines 89-107, given templates (strings) and pools
ValidateTemplates(templates, pools) ==
    IF pools.t # "dict" THEN Raise("AttributeError", <<>>)
    ELSE IF templates.t = "list"
    THEN Ok(TemplatesFindings(templates.v, pools.v, Len(templates.v)))
    ELSE IF templates.t = "dict"
    THEN Ok(TemplatesFindings([j \in 1..Len(templates.v) |-> templates.v[j][1]], pools.v,
                              Len(templates.v)))
    ELSE Raise("TypeError", <<>>)

validate_templates(profile) ==
    IF profile.t # "dict" THEN Raise("AttributeError", <<>>)
    ELSE ValidateTemplates(GetField(profile.v, "templates", JList(<<>>)),
                           GetField(profile.v, "pools", JDict(<<>>)))

\* f"{seed}-{idx}-{slot}".encode()
HashInput(seed, idx, slot) == JoinBytes(<<seed, idx, W(slot)>>, 45)

\* lines 128-130: templates[int(md5(...).hexdigest(), 16) % len(templates)]
TestTemplate(templates, seed, idx) ==
    IF templates.t \notin {"list", "dict"} THEN Raise("TypeError", <<>>)
    ELSE IF PyLen(templates) = 0 THEN Raise("ZeroDivisionError", <<>>)
    ELSE IF templates.t = "dict" THEN Raise("KeyError", <<>>)
    ELSE Ok(templates.v[DigestMod(MD5(HashInput(seed, idx, 0)), 1, 0, PyLen(templates)) + 1])

\* lines 135-137: one round of the loop over pools.items()
TestComponent(components, pool_name, pool_items, digest) ==
    IF components.exc # "none" THEN components
    ELSE IF pool_items.t \notin {"list", "dict"} THEN Raise("TypeError", <<>>)
    ELSE IF PyLen(pool_items) = 0 THEN Raise("ZeroDivisionError", <<>>)
    ELSE IF pool_items.t = "dict" THEN Raise("KeyError", <<>>)
    ELSE Ok(Append(components.val,
                   <<pool_name, pool_items.v[DigestMod(digest, 1, 0, PyLen(pool_items)) + 1]>>))

RECURSIVE TestComponents(_, _, _, _)
TestComponents(seed, idx, pools, n) ==
    IF n = 0 THEN Ok(<<>>)
    ELSE TestComponent(TestComponents(seed, idx, pools, n - 1),
                       pools[n][1], pools[n][2], MD5(HashInput(seed, idx, n)))

\* lines 139-143: try: template.format(**components) except KeyError as e
FormatOrError(formatted) ==
    IF formatted.exc = "KeyError"
    THEN Ok(MissingPoolOpen \o formatted.val \o MissingPoolClose)
    ELSE formatted

\* lines 139-143, given the outcome of the loop
TestFormat(template, components) ==
    IF components.exc # "none" THEN components
    ELSE FormatOrError(Format(template, components.val))

\* lines 127-143: the output of one idx
TestOutput(template, pools, seed, idx) ==
    IF template.exc # "none" THEN template
    ELSE IF pools.t # "dict" THEN Raise("AttributeError", <<>>)
    ELSE TestFormat(template.val, TestComponents(seed, idx, pools.v, Len(pools.v)))

\* outputs.append(output)
AppendOutput(outputs, output) ==
    IF outputs.exc # "none" THEN outputs
    ELSE IF output.exc # "none" THEN output
    ELSE Ok(Append(outputs.val, output.val))

\* lines 126-143: the first n rounds of the loop over range(count)
RECURSIVE TestOutputs(_, _, _, _)
TestOutputs(templates, pools, seed, n) ==
    IF n = 0 THEN Ok(<<>>)
    ELSE AppendOutput(TestOutputs(templates, pools, seed, n - 1),
                      TestOutput(TestTemplate(templates, seed, W(n - 1)), pools, seed,
                                 W(n - 1)))

generate_test_output(profile, seed, count) ==
    IF profile.t # "dict" THEN Raise("AttributeError", <<>>)
    ELSE TestOutputs(GetField(profile.v, "templates", JList(<<>>)),
                     GetField(profile.v, "pools", JDict(<<>>)), seed, count)

\* ------------------------------------------------------------------------
\* calculate_combinations: DJZ_ZeroEDIT.py and its copies under Skill/
\* ------------------------------------------------------------------------

\* a round that adds where the code multiplies
PlusLen(total, pool) ==
    IF total.exc # "none" THEN total
    ELSE IF pool.t \notin {"list", "dict"} THEN Raise("TypeError", <<>>)
    ELSE Ok(total.val + PyLen(pool))

\* total *= len(pool)
TimesLen(total, pool) ==
    IF total.exc # "none" THEN total
    ELSE IF pool.t \notin {"list", "dict"} THEN Raise("TypeError", <<>>)
    ELSE Ok(total.val * PyLen(pool))

\* DJZ_ZeroEDIT.py lines 90-91: the first n rounds of the loop over
\* pools.values()
RECURSIVE CoreProduct(_, _, _)
CoreProduct(total, pools, n) ==
    IF n = 0 THEN total
    ELSE TimesLen(CoreProduct(total, pools, n - 1), pools[n][2])

\* DJZ_ZeroEDIT.calculate_combinations
calculate_combinations(profile) ==
    IF profile.t # "dict" THEN Raise("AttributeError", <<>>)
    ELSE IF GetField(profile.v, "templates", JList(<<>>)).t \notin {"list", "dict"}
    THEN Raise("TypeError", <<>>)
    ELSE IF GetField(profile.v, "pools", JDict(<<>>)).t # "dict"
    THEN Raise("AttributeError", <<>>)
    ELSE CoreProduct(Ok(PyLen(GetField(profile.v, "templates", JList(<<>>)))),
                     GetField(profile.v, "pools", JDict(<<>>)).v,
                     PyLen(GetField(profile.v, "pools", JDict(<<>>))))

\* profile_stats.py lines 69-70
RECURSIVE StatsProduct(_, _, _)
StatsProduct(total, pools, n) ==
    IF n = 0 THEN total
    ELSE TimesLen(StatsProduct(total, pools, n - 1), pools[n][2])

\* profile_stats.calculate_combinations
stats_calculate_combinations(profile) ==
    IF profile.t # "dict" THEN Raise("AttributeError", <<>>)
    ELSE IF GetField(profile.v, "templates", JList(<<>>)).t \notin {"list", "dict"}
    THEN Raise("TypeError", <<>>)
    ELSE IF GetField(profile.v, "pools", JDict(<<>>)).t # "dict"
    THEN Raise("AttributeError", <<>>)
    ELSE StatsProduct(Ok(PyLen(GetField(profile.v, "templates", JList(<<>>)))),
                      GetField(profile.v, "pools", JDict(<<>>)).v,
                      PyLen(GetField(profile.v, "pools", JDict(<<>>))))

\* validate_profile.py lines 113-114
RECURSIVE ValidatorProduct(_, _, _)
ValidatorProduct(total, pools, n) ==
    IF n = 0 THEN total
    ELSE TimesLen(ValidatorProduct(total, pools, n - 1), pools[n][2])

\* validate_profile.calculate_combinations
validator_calculate_combinations(profile) ==
    IF profile.t # "dict" THEN Raise("AttributeError", <<>>)
    ELSE IF GetField(profile.v, "templates", JList(<<>>)).t \notin {"list", "dict"}
    THEN Raise("TypeError", <<>>)
    ELSE IF GetField(profile.v, "pools", JDict(<<>>)).t # "dict"
    THEN Raise("AttributeError", <<>>)
    ELSE ValidatorProduct(Ok(PyLen(GetField(profile.v, "templates", JList(<<>>)))),
                          GetField(profile.v, "pools", JDict(<<>>)).v,
                          PyLen(GetField(profile.v, "pools", JDict(<<>>))))

\* ------------------------------------------------------------------------
\* DJZ_ZeroEDIT.py: the node classes
\* ------------------------------------------------------------------------

\* f"[Error loading profile '{profile}': {str(e)}]"
ErrorString(profile, message) ==
    ErrorOpen \o profile \o ErrorMid \o message \o ErrorClose

\* if prefix or suffix: prompt = f"{prefix}{prompt}{suffix}"
Affix(prefix, prompt, suffix) ==
    IF prefix # <<>> \/ suffix # <<>> THEN prefix \o prompt \o suffix ELSE prompt

\* one invocation of generate_edit_prompt, as the call records it
Invocation(seed, prompt_idx, profile_data) ==
    [seed |-> seed, prompt_idx |-> prompt_idx, profile |-> profile_data,
     outcome |-> generate_edit_prompt(seed, prompt_idx, profile_data)]

\* a call of an entry point: its arguments, what its cache lookup did
\* (load), the invocations of generate_edit_prompt it made (calls) and what
\* it returned or raised (result)
Call(op, profile, seed, index, batch_size, prefix, suffix, load, calls, result) ==
    [op |-> op, profile |-> profile, seed |-> seed, index |-> index,
     batch_size |-> batch_size, prefix |-> prefix, suffix |-> suffix,
     load |-> load, calls |-> calls, result |-> result]

NoCall == Call("none", <<>>, <<0, 0>>, <<0, 0>>, 0, <<>>, <<>>, "none", <<>>, Ok(<<>>))

\* the outcome of load_profile as the cache lookup sees it
Loaded(loaded) == IF loaded.exc = "none" THEN "loaded" ELSE loaded.exc

\* lines 226-231 and 309-313: what the lookup of profile in the class's
\* cache c does: "cached", "loaded", or the exception of load_profile
LoadStep(c, profile) ==
    IF profile \in DOMAIN c THEN "cached" ELSE Loaded(load_profile(files, profile))

\* a lookup that loads and stores whenever the file is loadable
CacheReloaded(c, profile) ==
    IF load_profile(files, profile).exc = "none"
    THEN (profile :> load_profile(files, profile).val) @@ c
    ELSE c

\* a lookup that stores what json.load returned before the checks
CacheUnchecked(c, profile) ==
    IF profile \notin DOMAIN c /\ files[profile].kind = "json"
    THEN c @@ (profile :> files[profile].value)
    ELSE c

\* the class's cache after the lookup
CacheAfter(c, profile) ==
    IF LoadStep(c, profile) = "loaded"
    THEN c @@ (profile :> load_profile(files, profile).val)
    ELSE c

\* lines 229-231 and 312-313: the except clause
ExceptLoad(profile, loaded) ==
    IF loaded.exc \in {"FileNotFoundError", "ValueError", "JSONDecodeError"}
    THEN Ok(ErrorString(profile, loaded.val))
    ELSE Raise(loaded.exc, <<>>)

\* lines 236-242, given the invocation made
GenerateReturn(made, prefix, suffix) ==
    IF made.outcome.exc = "none"
    THEN Ok(Affix(prefix, made.outcome.val, suffix))
    ELSE made.outcome

\* the call of generate whose invocation is made
GenerateCall(profile, seed, prompt_index, prefix, suffix, load, made) ==
    Call("generate", profile, seed, prompt_index, 1, prefix, suffix, load, <<made>>,
         GenerateReturn(made, prefix, suffix))

\* DJZZeroEDIT.generate
Generate(profile, seed, prompt_index, prefix, suffix) ==
    /\ cache' = CacheAfter(cache, profile)
    /\ last' = IF LoadStep(cache, profile) \in {"cached", "loaded"}
               THEN GenerateCall(profile, seed, prompt_index, prefix, suffix,
                                 LoadStep(cache, profile),
                                 Invocation(seed, prompt_index,
                                            CacheAfter(cache, profile)[profile]))
               ELSE Call("generate", profile, seed, prompt_index, 1, prefix, suffix,
                         LoadStep(cache, profile), <<>>,
                         ExceptLoad(profile, load_profile(files, profile)))
    /\ UNCHANGED <<files, batchCache, HAS_XXHASH, workers>>

\* lines 317-322: one round of the loop, given the invocation made
BatchAppend(before, made, prefix, suffix) ==
    IF before.exc # "none" THEN before
    ELSE IF made.outcome.exc # "none"
    THEN [exc |-> made.outcome.exc, val |-> <<>>, calls |-> Append(before.calls, made)]
    ELSE [exc |-> "none",
          val |-> Append(before.val, Affix(prefix, made.outcome.val, suffix)),
          calls |-> Append(before.calls, made)]

\* lines 316-322: the first n rounds of the loop: the prompts appended so
\* far and the invocations made, or the exception that ended the loop
RECURSIVE BatchLoop(_, _, _, _, _, _)
BatchLoop(seed, start_index, n, profile_data, prefix, suffix) ==
    IF n = 0 THEN [exc |-> "none", val |-> <<>>, calls |-> <<>>]
    ELSE BatchAppend(BatchLoop(seed, start_index, n - 1, profile_data, prefix, suffix),
                     Invocation(seed, AddSmall(start_index, n - 1), profile_data),
                     prefix, suffix)

\* the call of generate_batch whose loop did loop
BatchCall(profile, seed, start_index, batch_size, prefix, suffix, load, loop) ==
    Call("generate_batch", profile, seed, start_index, batch_size, prefix, suffix, load,
         loop.calls, [exc |-> loop.exc, val |-> loop.val])

\* line 315: return ([f"[Error loading profile ...]"],)
ListOf(outcome) ==
    IF outcome.exc = "none" THEN Ok(<<outcome.val>>) ELSE outcome

\* DJZZeroEDITBatch.generate_batch
GenerateBatch(profile, seed, start_index, batch_size, prefix, suffix) ==
    /\ batchCache' = CacheAfter(batchCache, profile)
    /\ last' = IF LoadStep(batchCache, profile) \in {"cached", "loaded"}
               THEN BatchCall(profile, seed, start_index, batch_size, prefix, suffix,
                              LoadStep(batchCache, profile),
                              BatchLoop(seed, start_index, batch_size,
                                        CacheAfter(batchCache, profile)[profile],
                                        prefix, suffix))
               ELSE Call("generate_batch", profile, seed, start_index, batch_size,
                         prefix, suffix, LoadStep(batchCache, profile), <<>>,
                         ListOf(ExceptLoad(profile, load_profile(files, profile))))
    /\ UNCHANGED <<files, cache, HAS_XXHASH, workers>>

\* ------------------------------------------------------------------------
\* The node entry points, called in any order
\* ------------------------------------------------------------------------

\* what custom.json holds when the nodes run
NodeVariants == {"empty templates", "no pools", "malformed", "top int", "absent"}

Init ==
    /\ \E variant \in NodeVariants : files = Directory(variant)
    /\ cache = <<>>
    /\ batchCache = <<>>
    /\ HAS_XXHASH = TRUE
    /\ last = NoCall
    /\ pinned = NoCall
    /\ workers = <<>>

Next ==
    \E profile \in Ids, seed \in Seeds, index \in Indices, affix \in Affixes :
        \/ /\ Generate(profile, seed, index, affix[1], affix[2])
           /\ UNCHANGED pinned
        \/ \E batch_size \in 1..MaxBatch :
            /\ GenerateBatch(profile, seed, index, batch_size, affix[1], affix[2])
            /\ UNCHANGED pinned

Spec == Init /\ [][Next]_vars

\* ------------------------------------------------------------------------
\* The node entry points with an earlier call remembered
\* ------------------------------------------------------------------------

\* the indices of the remembered calls
DetIndices == {W(0), W(1)}

InitDet ==
    /\ files = Directory("undef")
    /\ cache = <<>>
    /\ batchCache = <<>>
    /\ HAS_XXHASH = TRUE
    /\ last = NoCall
    /\ pinned = NoCall
    /\ workers = <<>>

\* remember the latest call
Pin ==
    /\ pinned' = last
    /\ UNCHANGED <<files, cache, batchCache, HAS_XXHASH, workers, last>>

NextDet ==
    \/ \E profile \in Ids, seed \in Seeds, index \in DetIndices :
        /\ Generate(profile, seed, index, <<>>, <<>>)
        /\ UNCHANGED pinned
    \/ \E profile \in Ids, seed \in Seeds, batch_size \in 1..MaxBatch :
        /\ GenerateBatch(profile, seed, W(0), batch_size, <<>>, <<>>)
        /\ UNCHANGED pinned
    \/ Pin

SpecDet == InitDet /\ [][NextDet]_vars

\* ------------------------------------------------------------------------
\* The node entry points while custom.json is rewritten
\* ------------------------------------------------------------------------

\* what custom.json is rewritten to
FileVariants == {"undef", "good", "no pools", "absent"}

\* the profiles directory changes under the running host: custom.json is
\* written, or removed
WriteFile(profile, variant) ==
    /\ files[profile] # CustomFile(variant)
    /\ files' = [files EXCEPT ![profile] = CustomFile(variant)]
    /\ last' = Call("write", profile, <<0, 0>>, <<0, 0>>, 0, <<>>, <<>>, "none", <<>>,
                    Ok(<<>>))
    /\ UNCHANGED <<cache, batchCache, HAS_XXHASH, workers, pinned>>

\* remember the latest call, one whose load failed
PinFailure ==
    /\ last.op \in {"generate", "generate_batch"}
    /\ last.load \notin {"cached", "loaded"}
    /\ pinned' = last
    /\ UNCHANGED <<files, cache, batchCache, HAS_XXHASH, workers, last>>

InitFiles ==
    /\ \E variant \in FileVariants : files = Directory(variant)
    /\ cache = <<>>
    /\ batchCache = <<>>
    /\ HAS_XXHASH = TRUE
    /\ last = NoCall
    /\ pinned = NoCall
    /\ workers = <<>>

NextFiles ==
    \/ \E profile \in Ids, seed \in Seeds :
        /\ Generate(profile, seed, W(0), <<>>, <<>>)
        /\ UNCHANGED pinned
    \/ \E profile \in Ids, batch_size \in 1..MaxBatch :
        /\ GenerateBatch(profile, W(42), W(0), batch_size, <<>>, <<>>)
        /\ UNCHANGED pinned
    \/ \E variant \in FileVariants : WriteFile(CustomId, variant)
    \/ PinFailure

SpecFiles == InitFiles /\ [][NextFiles]_vars

\* ------------------------------------------------------------------------
\* Workers inside generate and generate_batch at the same time
\* ------------------------------------------------------------------------

NumWorkers == 2

Workers == 1..NumWorkers

\* what a worker is called with: generate with a seed and an index, or
\* generate_batch of MaxBatch prompts
WorkerCalls ==
    {[op |-> "generate", seed |-> seed, index |-> index, batch_size |-> 1] :
        seed \in Seeds, index \in DetIndices}
        \cup {[op |-> "generate_batch", seed |-> W(42), index |-> W(0),
               batch_size |-> MaxBatch]}

\* the frame of a worker entering its entry point: pc is the statement it
\* is about to run, loaded what load_profile gave it, data its profile_data
Frame(call, profile) ==
    [pc |-> "check", op |-> call.op, profile |-> profile, seed |-> call.seed,
     index |-> call.index, batch_size |-> call.batch_size,
     loaded |-> Ok(<<>>), data |-> <<>>, result |-> Ok(<<>>)]

\* self._profile_cache of the class the worker is in
WorkerCache(w) == IF workers[w].op = "generate" THEN cache ELSE batchCache

\* a store that puts the default profile's content under the name
StoreDefault(c, profile, value) == (profile :> GoodProfile) @@ c

\* self._profile_cache[profile] = value: the entry is set, or set again
StoreEntry(c, profile, value) == (profile :> value) @@ c

\* lines 226 and 309: if profile not in self._profile_cache
WorkerCheck(w) ==
    /\ workers[w].pc = "check"
    /\ workers' = [workers EXCEPT ![w].pc =
                    IF workers[w].profile \in DOMAIN WorkerCache(w) THEN "read" ELSE "load"]
    /\ UNCHANGED <<files, cache, batchCache, HAS_XXHASH, last, pinned>>

\* lines 229-231 and 312-313: what the worker returns or raises when
\* load_profile raised
WorkerExcept(frame, loaded) ==
    IF frame.op = "generate" THEN ExceptLoad(frame.profile, loaded)
    ELSE ListOf(ExceptLoad(frame.profile, loaded))

\* lines 228 and 311, the right-hand side: load_profile(profile) returns,
\* or raises and the worker leaves through the except clause
WorkerLoad(w) ==
    /\ workers[w].pc = "load"
    /\ workers' = [workers EXCEPT
                    ![w].loaded = load_profile(files, workers[w].profile),
                    ![w].pc = IF load_profile(files, workers[w].profile).exc = "none"
                              THEN "store" ELSE "done",
                    ![w].result = IF load_profile(files, workers[w].profile).exc = "none"
                                  THEN workers[w].result
                                  ELSE WorkerExcept(workers[w],
                                                    load_profile(files, workers[w].profile))]
    /\ UNCHANGED <<files, cache, batchCache, HAS_XXHASH, last, pinned>>

\* lines 228 and 311, the assignment
WorkerStore(w) ==
    /\ workers[w].pc = "store"
    /\ cache' = IF workers[w].op = "generate"
                THEN StoreEntry(cache, workers[w].profile, workers[w].loaded.val)
                ELSE cache
    /\ batchCache' = IF workers[w].op = "generate"
                     THEN batchCache
                     ELSE StoreEntry(batchCache, workers[w].profile, workers[w].loaded.val)
    /\ workers' = [workers EXCEPT ![w].pc = "read"]
    /\ UNCHANGED <<files, HAS_XXHASH, last, pinned>>

\* lines 233 and 315: profile_data = self._profile_cache[profile]
WorkerRead(w) ==
    /\ workers[w].pc = "read"
    /\ workers' = [workers EXCEPT ![w].data = WorkerCache(w)[workers[w].profile],
                                  ![w].pc = "generate"]
    /\ UNCHANGED <<files, cache, batchCache, HAS_XXHASH, last, pinned>>

\* lines 236-242 and 316-324 on the worker's profile_data
WorkerReturn(frame) ==
    IF frame.op = "generate"
    THEN GenerateReturn(Invocation(frame.seed, frame.index, frame.data), <<>>, <<>>)
    ELSE BatchCall(frame.profile, frame.seed, frame.index, frame.batch_size, <<>>, <<>>,
                   "cached",
                   BatchLoop(frame.seed, frame.index, frame.batch_size, frame.data,
                             <<>>, <<>>)).result

WorkerGenerate(w) ==
    /\ workers[w].pc = "generate"
    /\ workers' = [workers EXCEPT ![w].result = WorkerReturn(workers[w]),
                                  ![w].pc = "done"]
    /\ UNCHANGED <<files, cache, batchCache, HAS_XXHASH, last, pinned>>

\* what custom.json holds while the workers run
RaceVariants == {"undef", "no pools", "top int"}

\* the workers enter with the same identifier, cached by neither class
InitRace ==
    /\ \E variant \in RaceVariants : files = Directory(variant)
    /\ cache = <<>>
    /\ batchCache = <<>>
    /\ HAS_XXHASH = TRUE
    /\ last = NoCall
    /\ pinned = NoCall
    /\ \E profile \in Ids :
        workers \in {[w \in Workers |-> Frame(calls[w], profile)] :
                        calls \in [Workers -> WorkerCalls]}

NextRace ==
    \E w \in Workers :
        \/ WorkerCheck(w)
        \/ WorkerLoad(w)
        \/ WorkerStore(w)
        \/ WorkerRead(w)
        \/ WorkerGenerate(w)

SpecRace == InitRace /\ [][NextRace]_vars

\* ------------------------------------------------------------------------
\* The functions and the command line tools, run once on a directory
\* ------------------------------------------------------------------------

MaxPoolSize == 4

\* the hash values hash_to_index is applied to: the digests of the model's
\* inputs, and 0, 2^16, 2^31 and 2^32 - 1
Hashes ==
    {XXH32Memo[key] : key \in DOMAIN XXH32Memo}
        \cup {<<0, 0>>, <<1, 0>>, <<32768, 0>>, <<65535, 65535>>}

\* DJZ_ZeroEDIT.py lines 453-454: generate_edit_prompt on a parsed profile
CoreGenerate(profile, seed, index) ==
    /\ last.op = "none"
    /\ files[profile].kind = "json"
    /\ last' = [op |-> "generate_edit_prompt", profile |-> profile, seed |-> seed,
                index |-> index, doc |-> files[profile].value,
                outcome |-> generate_edit_prompt(seed, index, files[profile].value)]
    /\ UNCHANGED <<files, cache, batchCache, HAS_XXHASH, workers, pinned>>

\* the prompt generated from what load_profile returned
AfterLoad(loaded, seed, index) ==
    IF loaded.exc = "none" THEN generate_edit_prompt(seed, index, loaded.val) ELSE loaded

\* DJZ_ZeroEDIT.py lines 435-454: load_profile, then generate_edit_prompt
LoadAndGenerate(profile, seed, index) ==
    /\ last.op = "none"
    /\ last' = [op |-> "load_profile", profile |-> profile, seed |-> seed,
                index |-> index, loaded |-> load_profile(files, profile),
                prompt |-> AfterLoad(load_profile(files, profile), seed, index)]
    /\ UNCHANGED <<files, cache, batchCache, HAS_XXHASH, workers, pinned>>

\* the three generators on one parsed profile, for idx in range(TestCount)
Compare(profile, seed) ==
    /\ last.op = "none"
    /\ files[profile].kind = "json"
    /\ last' = [op |-> "compare", profile |-> profile, seed |-> seed,
                doc |-> files[profile].value,
                core |-> [k \in 1..TestCount |->
                             generate_edit_prompt(seed, W(k - 1), files[profile].value)],
                stats |-> [k \in 1..TestCount |->
                              generate_prompt(seed, W(k - 1), files[profile].value)],
                validator |-> generate_test_output(files[profile].value, seed, TestCount)]
    /\ UNCHANGED <<files, cache, batchCache, HAS_XXHASH, workers, pinned>>

\* hash_to_index applied to a hash value and a pool size
HashToIndex(h, pool_size) ==
    /\ last.op = "none"
    /\ last' = [op |-> "hash_to_index", h |-> h, pool_size |-> pool_size,
                index |-> hash_to_index(h, pool_size)]
    /\ UNCHANGED <<files, cache, batchCache, HAS_XXHASH, workers, pinned>>

\* validate_profile.py lines 173-192: the three validations of a parsed
\* profile
Validate(profile) ==
    /\ last.op = "none"
    /\ files[profile].kind = "json"
    /\ last' = [op |-> "validate", profile |-> profile, doc |-> files[profile].value,
                structure |-> validate_structure(files[profile].value),
                pools |-> validate_pools(files[profile].value),
                templates |-> validate_templates(files[profile].value)]
    /\ UNCHANGED <<files, cache, batchCache, HAS_XXHASH, workers, pinned>>

\* the names a listing of the profiles directory may hold
DirNames ==
    {DefaultId, CustomId,
     <<"Z", ".", "j", "s", "o", "n">>,
     <<"a", "b", ".", "j", "s", "o", "n">>,
     <<"b", ".", "j", "s", "o", "n">>,
     <<"b", ".", "t", "x", "t">>}

\* the listings: the directory is absent, or holds some of the names, each
\* a file or a directory
Listings ==
    {[exists |-> FALSE, entries |-> <<>>]}
        \cup {[exists |-> TRUE,
               entries |-> [name \in {n \in DirNames : kinds[n] # "none"} |-> kinds[name]]] :
                 kinds \in [DirNames -> {"none", "file", "dir"}]}

\* DJZ_ZeroEDIT.py line 175 and 269: discover_profiles on a listing
DiscoverProfiles(listing) ==
    /\ last.op = "none"
    /\ last' = [op |-> "discover_profiles", listing |-> listing,
                result |-> discover_profiles(listing),
                after |-> DirectoryAfter(listing)]
    /\ UNCHANGED <<files, cache, batchCache, HAS_XXHASH, workers, pinned>>

\* the sizes of the profiles calculate_combinations is applied to
MaxTemplates == 3

MaxPools == 2

MaxEntries == 5

\* the pool names of those profiles, in the order of the file
PoolNames == <<<<"x">>, <<"y">>, <<"z">>, <<"w">>>>

\* a profile with the given number of templates and a pool of each of the
\* given sizes
SizedProfile(n, sizes) ==
    Profile(JList([j \in 1..n |-> TemplateAx]),
            JDict([k \in 1..Len(sizes) |->
                      <<PoolNames[k], JList([j \in 1..sizes[k] |-> <<"p">>])>>]))

SizedProfiles ==
    {SizedProfile(n, sizes) :
        n \in 0..MaxTemplates,
        sizes \in UNION {[1..m -> 0..MaxEntries] : m \in 0..MaxPools}}

\* the three copies of calculate_combinations on one profile
CalculateCombinations(doc) ==
    /\ last.op = "none"
    /\ last' = [op |-> "calculate_combinations", doc |-> doc,
                core |-> calculate_combinations(doc),
                stats |-> stats_calculate_combinations(doc),
                validator |-> validator_calculate_combinations(doc)]
    /\ UNCHANGED <<files, cache, batchCache, HAS_XXHASH, workers, pinned>>

InitTools ==
    /\ \E variant \in CustomVariants : files = Directory(variant)
    /\ cache = <<>>
    /\ batchCache = <<>>
    /\ HAS_XXHASH \in BOOLEAN
    /\ last = NoCall
    /\ pinned = NoCall
    /\ workers = <<>>

\* a tool runs once (each action asks that none has run): nothing of one
\* run is left for the next
NextTools ==
    \/ \E profile \in Ids, seed \in Seeds, index \in Indices \cup ToolIndices :
        CoreGenerate(profile, seed, index)
    \/ \E profile \in Ids, seed \in Seeds, index \in Indices \cup ToolIndices :
        LoadAndGenerate(profile, seed, index)
    \/ \E profile \in Ids, seed \in Seeds : Compare(profile, seed)
    \/ \E h \in Hashes, pool_size \in 1..MaxPoolSize : HashToIndex(h, pool_size)
    \/ \E profile \in Ids : Validate(profile)
    \/ \E listing \in Listings : DiscoverProfiles(listing)
    \/ \E doc \in SizedProfiles : CalculateCombinations(doc)
    \/ \E profile \in Ids :
        files[profile].kind = "json" /\ CalculateCombinations(files[profile].value)

SpecTools == InitTools /\ [][NextTools]_vars

\* ------------------------------------------------------------------------
\* What the properties are stated with
\* ------------------------------------------------------------------------

\* sub occurs in s
Contains(s, sub) ==
    \E i \in 1..(Len(s) - Len(sub) + 1) : SubSeq(s, i, i + Len(sub) - 1) = sub

\* the names of the {name} placeholders of a template
Placeholders(t) ==
    {SubSeq(t, i + 1, j - 1) : <<i, j>> \in
        {p \in (1..Len(t)) \X (1..Len(t)) :
            /\ p[1] + 1 < p[2]
            /\ t[p[1]] = "{"
            /\ t[p[2]] = "}"
            /\ \A k \in (p[1] + 1)..(p[2] - 1) : t[k] \in WordChars}}

\* the pools of a parsed profile, none when it has no pools object
PoolsOf(doc) ==
    IF doc.t = "dict" /\ "pools" \in DOMAIN doc.v /\ doc.v.pools.t = "dict"
    THEN doc.v.pools.v
    ELSE <<>>

\* the templates of a parsed profile, none when it has no template list
TemplatesOf(doc) ==
    IF doc.t = "dict" /\ "templates" \in DOMAIN doc.v /\ doc.v.templates.t = "list"
    THEN doc.v.templates.v
    ELSE <<>>

\* a profile with at least one template and only non-empty pools
IsProfile(doc) ==
    /\ doc.t = "dict"
    /\ "templates" \in DOMAIN doc.v
    /\ "pools" \in DOMAIN doc.v
    /\ doc.v.templates.t = "list"
    /\ PyLen(doc.v.templates) > 0
    /\ doc.v.pools.t = "dict"
    /\ \A i \in 1..Len(doc.v.pools.v) :
        doc.v.pools.v[i][2].t = "list" /\ PyLen(doc.v.pools.v[i][2]) > 0

\* every placeholder of every template names a pool
ReferencesOnlyPools(doc) ==
    \A i \in 1..Len(TemplatesOf(doc)) :
        \A name \in Placeholders(TemplatesOf(doc)[i]) : HasKey(PoolsOf(doc), name)

\* h mod n of a uint32 h, by TLC's own arithmetic on numbers below 2^31
Residue(h, n) ==
    IF h[1] < 32768 THEN (h[1] * B16 + h[2]) % n
    ELSE ((((h[1] - 32768) * B16 + h[2]) % n) + 2 * ((2 ^ 30) % n)) % n

\* hash(seed, (index, slot))
CoordHash(seed, index, slot) ==
    XXH32(Mask32(seed), BytesOfWord(index) \o BytesOfWord(W(slot)))

\* the entry of seq at position hash(seed, (index, slot)) mod len(seq)
Selected(seq, seed, index, slot) ==
    seq[Residue(CoordHash(seed, index, slot), Len(seq)) + 1]

\* text with the placeholder of each of the first n pools replaced by the
\* entry selected for the pool's slot
RECURSIVE Substituted(_, _, _, _, _)
Substituted(text, pools, seed, index, n) ==
    IF n = 0 THEN text
    ELSE Replace(Substituted(text, pools, seed, index, n - 1),
                 <<"{">> \o pools[n][1] \o <<"}">>,
                 Selected(pools[n][2].v, seed, index, n))

\* the prompt the slot assignment gives
SlotAssigned(seed, index, doc) ==
    Substituted(Selected(TemplatesOf(doc), seed, index, 0), PoolsOf(doc), seed, index,
                Len(PoolsOf(doc)))

\* the calls of an entry point whose cache lookup gave a profile
Served(op) == last.op = op /\ last.load \in {"cached", "loaded"}

\* ------------------------------------------------------------------------
\* C1
\* ------------------------------------------------------------------------

SameInputs(a, b) ==
    a.seed = b.seed /\ a.prompt_idx = b.prompt_idx /\ a.profile = b.profile

C2_SlotAssignment ==
    (/\ last.op = "generate_edit_prompt"
     /\ FitsInt32(last.index)
     /\ IsProfile(last.doc)
     /\ ReferencesOnlyPools(last.doc))
        => last.outcome = Ok(SlotAssigned(last.seed, last.index, last.doc))

\* seed 42, index 2 of the good profile: "A q B s"
C2_Witness ==
    /\ last.op = "generate_edit_prompt"
    /\ last.doc = GoodProfile
    /\ last.seed = W(42)
    /\ last.index = W(2)
    /\ last.outcome = Ok(<<"A", " ", "q", " ", "B", " ", "s">>)

\* ------------------------------------------------------------------------
\* C3
\* ------------------------------------------------------------------------

\* the placeholders of the selected template that name no pool
Unresolved(seed, index, doc) ==
    {name \in Placeholders(Selected(TemplatesOf(doc), seed, index, 0)) :
        ~HasKey(PoolsOf(doc), name)}

\* C3: when the selected template has a placeholder naming no pool,
\* generate_edit_prompt returns; a marker naming the missing pool stands in
\* the output in place of that placeholder, and no placeholder of a defined
\* pool is left
C3_MarkedFallback ==
    (/\ last.op = "generate_edit_prompt"
     /\ FitsInt32(last.index)
     /\ IsProfile(last.doc)
     /\ Unresolved(last.seed, last.index, last.doc) # {})
        => /\ last.outcome.exc = "none"
           /\ \A name \in Unresolved(last.seed, last.index, last.doc) :
                /\ Contains(last.outcome.val, name)
                /\ ~Contains(last.outcome.val, <<"{">> \o name \o <<"}">>)
           /\ \A i \in 1..Len(PoolsOf(last.doc)) :
                ~Contains(last.outcome.val, <<"{">> \o PoolsOf(last.doc)[i][1] \o <<"}">>)

\* ------------------------------------------------------------------------
\* C4
\* ------------------------------------------------------------------------

\* C4: for every seed and every index in 0..0xFFFFFFFF, generate on a
\* loaded profile with at least one template and only non-empty pools
\* returns a string: neither it nor its edit_hash calls fail
C4_Total ==
    (Served("generate") /\ IsProfile(cache[last.profile]))
        => /\ last.result.exc = "none"
           /\ \A i \in 1..Len(last.calls) : last.calls[i].outcome.exc = "none"

\* ------------------------------------------------------------------------
\* C5
\* ------------------------------------------------------------------------

\* C5: generate_batch returns exactly batch_size strings, the k-th being
\* prefix + generate_edit_prompt(seed, start_index + k, profile) + suffix
C5_BatchIsMap ==
    (Served("generate_batch") /\ IsProfile(batchCache[last.profile]))
        => /\ last.result.exc = "none"
           /\ Len(last.result.val) = last.batch_size
           /\ \A k \in 0..(last.batch_size - 1) :
                /\ generate_edit_prompt(last.seed, AddSmall(last.index, k),
                                        batchCache[last.profile]).exc = "none"
                /\ last.result.val[k + 1] =
                    last.prefix
                        \o generate_edit_prompt(last.seed, AddSmall(last.index, k),
                                                batchCache[last.profile]).val
                        \o last.suffix

\* ------------------------------------------------------------------------
\* C6
\* ------------------------------------------------------------------------

\* templates and pools are present, well-typed and non-empty
SchemaHolds(doc) == IsProfile(doc) /\ Len(PoolsOf(doc)) > 0

\* C6: load_profile fails with a schema error on a parsed file whose
\* templates or pools is missing, wrong-typed or empty, so that no profile
\* it returns makes generate_edit_prompt select from an empty sequence
C6_SchemaChecked ==
    (last.op = "load_profile" /\ files[last.profile].kind = "json")
        => /\ ~SchemaHolds(files[last.profile].value) => last.loaded.exc = "ValueError"
           /\ last.loaded.exc = "none" => last.prompt.exc # "ZeroDivisionError"

\* ------------------------------------------------------------------------
\* C7
\* ------------------------------------------------------------------------

\* C7: when loading the requested profile fails, generate returns the error
\* string and generate_batch a list holding it; neither raises, neither
\* invokes generate_edit_prompt
C7_InBand ==
    (last.op \in {"generate", "generate_batch"} /\ last.load \notin {"cached", "loaded"})
        => /\ last.result.exc = "none"
           /\ last.calls = <<>>
           /\ last.op = "generate" => Contains(last.result.val, ErrorOpen \o last.profile)
           /\ last.op = "generate_batch" =>
                /\ Len(last.result.val) = 1
                /\ Contains(last.result.val[1], ErrorOpen \o last.profile)

\* ------------------------------------------------------------------------
\* C8
\* ------------------------------------------------------------------------

\* C8: for every seed and index, profile_stats.generate_prompt and
\* validate_profile.generate_test_output give the text generate_edit_prompt
\* gives
C8_SameText ==
    (last.op = "compare" /\ \A k \in 1..TestCount : last.core[k].exc = "none")
        => /\ last.stats = last.core
           /\ last.validator = Ok([k \in 1..TestCount |-> last.core[k].val])

\* ------------------------------------------------------------------------
\* C9
\* ------------------------------------------------------------------------

\* C9: for every uint32 h and pool size n >= 1, hash_to_index(h, n) is
\* h mod n, which is at least 0 and less than n
C9_Bounded ==
    last.op = "hash_to_index"
        => /\ last.index \in 0..(last.pool_size - 1)
           /\ last.index = Residue(last.h, last.pool_size)

\* 2^31 mod 3 = 2
C9_Witness ==
    /\ last.op = "hash_to_index"
    /\ last.h = <<32768, 0>>
    /\ last.pool_size = 3
    /\ last.index = 2

\* ------------------------------------------------------------------------
\* C10
\* ------------------------------------------------------------------------

\* what a validation reported
Findings(outcome) == IF outcome.exc = "none" THEN outcome.val ELSE <<>>

AllFindings ==
    Findings(last.structure) \o Findings(last.pools) \o Findings(last.templates)

HasFinding(kind) == \E i \in 1..Len(AllFindings) : AllFindings[i][1] = kind

\* two characters equal ignoring case
SameLetter(a, b) ==
    a = b \/ \E k \in 1..Len(UpperCase) : {a, b} = {UpperCase[k], LowerCase[k]}

SameIgnoringCase(a, b) ==
    Len(a) = Len(b) /\ \A j \in 1..Len(a) : SameLetter(a[j], b[j])

\* the list pools of a parsed profile
ListPools(doc) ==
    {PoolsOf(doc)[i][2].v : i \in {j \in 1..Len(PoolsOf(doc)) : PoolsOf(doc)[j][2].t = "list"}}

EmptyPool(doc) == \E items \in ListPools(doc) : items = <<>>

DuplicateEntry(doc) ==
    \E items \in ListPools(doc) :
        \E j, k \in 1..Len(items) : j < k /\ SameIgnoringCase(items[j], items[k])

BlankEntry(doc) ==
    \E items \in ListPools(doc) : \E j \in 1..Len(items) : IsBlank(items[j])

UndefinedReference(doc) == ~ReferencesOnlyPools(doc)

AllRequiredFields(doc) ==
    doc.t = "dict"
        /\ {"name", "description", "version", "templates", "pools"} \subseteq DOMAIN doc.v

\* templates is a list and pools an object, where they are given
Typed(doc) ==
    /\ doc.t = "dict"
    /\ "templates" \in DOMAIN doc.v => doc.v.templates.t = "list"
    /\ "pools" \in DOMAIN doc.v => doc.v.pools.t = "dict"

\* nothing for the validator to report
Clean(doc) ==
    /\ AllRequiredFields(doc)
    /\ IsProfile(doc)
    /\ ~DuplicateEntry(doc)
    /\ ~BlankEntry(doc)
    /\ ~UndefinedReference(doc)

ProfileFiles(listing) ==
    {name \in DOMAIN listing.entries :
        /\ listing.entries[name] = "file"
        /\ \E k \in 0..Len(name) : name = SubSeq(name, 1, k) \o JsonSuffix}

\* a comes before b in the order of the characters' codes: they differ
\* first at a position where a ends or holds the smaller character
LexBefore(a, b) ==
    \E k \in 1..Len(b) :
        /\ k <= Len(a) + 1
        /\ SubSeq(a, 1, k - 1) = SubSeq(b, 1, k - 1)
        /\ k = Len(a) + 1 \/ CodePoint(a[k]) < CodePoint(b[k])

\* C11: discover_profiles never returns an empty list; of a directory with
\* profile files it returns each of their names once, default-EDIT.json
\* first when it is among them and the others in lexicographic order; of
\* an absent directory or one with no profile file it returns the list
\* holding default-EDIT.json alone
C11_Discovery ==
    last.op = "discover_profiles"
        => /\ Len(last.result) >= 1
           /\ (~last.listing.exists \/ ProfileFiles(last.listing) = {})
                => last.result = <<DefaultId>>
           /\ (last.listing.exists /\ ProfileFiles(last.listing) # {})
                => /\ {last.result[i] : i \in 1..Len(last.result)} = ProfileFiles(last.listing)
                   /\ Len(last.result) = Cardinality(ProfileFiles(last.listing))
                   /\ DefaultId \in ProfileFiles(last.listing) => last.result[1] = DefaultId
                   /\ \A i, j \in 1..Len(last.result) :
                        (/\ i < j
                         /\ last.result[i] # DefaultId
                         /\ last.result[j] # DefaultId)
                            => LexBefore(last.result[i], last.result[j])

\* a directory whose sorted names would put default-EDIT.json third, and
\* "ab.json" before "b.json"
C11_Witness ==
    /\ last.op = "discover_profiles"
    /\ last.result = <<DefaultId,
                       <<"Z", ".", "j", "s", "o", "n">>,
                       <<"a", "b", ".", "j", "s", "o", "n">>,
                       <<"b", ".", "j", "s", "o", "n">>,
                       CustomId>>

\* ------------------------------------------------------------------------
\* C12
\* ------------------------------------------------------------------------

\* the product of the sizes of the pools, 1 when there is none
RECURSIVE SizesProduct(_)
SizesProduct(pools) ==
    IF pools = <<>> THEN 1 ELSE Len(Head(pools)[2].v) * SizesProduct(Tail(pools))

\* templates, if given, is a list and pools, if given, an object of lists
ListsOnly(doc) ==
    /\ Typed(doc)
    /\ \A i \in 1..Len(PoolsOf(doc)) : PoolsOf(doc)[i][2].t = "list"

\* C12: for a profile whose templates is a list and whose pools are lists,
\* calculate_combinations returns the number of templates multiplied by
\* the product of the sizes of the pools, and its copies in
\* profile_stats.py and validate_profile.py return the same; on any parsed
\* file the three copies have the same outcome
C12_Combinations ==
    last.op = "calculate_combinations"
        => /\ last.stats = last.core
           /\ last.validator = last.core
           /\ ListsOnly(last.doc)
                => last.core = Ok(Len(TemplatesOf(last.doc)) * SizesProduct(PoolsOf(last.doc)))

\* 3 templates with pools of 4 and 5 entries give 60
C12_Witness ==
    /\ last.op = "calculate_combinations"
    /\ Len(TemplatesOf(last.doc)) = 3
    /\ Len(PoolsOf(last.doc)) = 2
    /\ Len(PoolsOf(last.doc)[1][2].v) = 4
    /\ Len(PoolsOf(last.doc)[2][2].v) = 5
    /\ last.validator = Ok(60)

\* ------------------------------------------------------------------------
\* C13
\* ------------------------------------------------------------------------

\* the cache of the class whose entry point the latest call entered
ClassCache(c, b) == IF last'.op = "generate" THEN c ELSE b

\* C13: an entry of a class's profile cache, once there, stays and stays
\* equal over every later call and every change of the file; a call loads
\* a profile only when its class's cache has no entry for it
C13_LoadedOnce ==
    [][/\ \A id \in DOMAIN cache : id \in DOMAIN cache' /\ cache'[id] = cache[id]
       /\ \A id \in DOMAIN batchCache :
            id \in DOMAIN batchCache' /\ batchCache'[id] = batchCache[id]
       /\ (/\ last' # last
           /\ last'.op \in {"generate", "generate_batch"}
           /\ last'.load = "loaded")
            => last'.profile \notin DOMAIN ClassCache(cache, batchCache)]_vars

\* a prompt is generated from the cached profile after custom.json has
\* been rewritten: the cache holds what was loaded, not what the file holds
C13_Witness ==
    /\ last.op = "generate"
    /\ last.profile = CustomId
    /\ last.load = "cached"
    /\ last.result.exc = "none"
    /\ files[CustomId] # Json(cache[CustomId])
    /\ CustomId \in DOMAIN batchCache

\* ------------------------------------------------------------------------
\* C15
\* ------------------------------------------------------------------------

\* a profile that passed the checks of load_profile
PassedChecks(doc) ==
    doc.t = "dict" /\ "templates" \in DOMAIN doc.v /\ "pools" \in DOMAIN doc.v

\* the latest step is a call of an entry point
Called == last' # last /\ last'.op \in {"generate", "generate_batch"}

\* C15: a call whose load fails leaves both caches as they were; every
\* cache entry passed the checks of load_profile; and a call with an
\* identifier its class has not cached loads the file as it is now, caching
\* it when it is loadable
C15_FailureNotCached ==
    [][/\ (Called /\ last'.load \notin {"cached", "loaded"})
            => cache' = cache /\ batchCache' = batchCache
       /\ \A id \in DOMAIN cache' : PassedChecks(cache'[id])
       /\ \A id \in DOMAIN batchCache' : PassedChecks(batchCache'[id])
       /\ (/\ Called
           /\ last'.profile \notin DOMAIN ClassCache(cache, batchCache)
           /\ files[last'.profile].kind = "json"
           /\ PassedChecks(files[last'.profile].value))
            => /\ last'.load = "loaded"
               /\ ClassCache(cache', batchCache')[last'.profile] = files[last'.profile].value]_vars

\* generate failed to load custom.json, the file was rewritten, and the
\* next generate of custom.json loaded it
C15_Witness ==
    /\ pinned.op = "generate"
    /\ pinned.profile = CustomId
    /\ pinned.load = "ValueError"
    /\ last.op = "generate"
    /\ last.profile = CustomId
    /\ last.load = "loaded"
    /\ CustomId \notin DOMAIN batchCache

\* ------------------------------------------------------------------------
\* C14
\* ------------------------------------------------------------------------

\* what the worker's call returns or raises when it is the only call, made
\* with the identifier not cached
Alone(frame) ==
    IF load_profile(files, frame.profile).exc # "none"
    THEN WorkerExcept(frame, load_profile(files, frame.profile))
    ELSE IF frame.op = "generate"
    THEN GenerateReturn(Invocation(frame.seed, frame.index, files[frame.profile].value),
                        <<>>, <<>>)
    ELSE [exc |-> BatchLoop(frame.seed, frame.index, frame.batch_size,
                            files[frame.profile].value, <<>>, <<>>).exc,
          val |-> BatchLoop(frame.seed, frame.index, frame.batch_size,
                            files[frame.profile].value, <<>>, <<>>).val]

\* C14: under every interleaving of the workers' steps, a worker that has
\* left its entry point has the result its call has alone; every cache
\* entry equals the content of its file; and once all have left after a
\* load that succeeded, the cache of each class entered holds the entry
C14_RaceHarmless ==
    /\ \A w \in DOMAIN workers :
        workers[w].pc = "done" => workers[w].result = Alone(workers[w])
    /\ \A id \in DOMAIN cache : files[id] = Json(cache[id])
    /\ \A id \in DOMAIN batchCache : files[id] = Json(batchCache[id])
    /\ \A w \in DOMAIN workers :
        (/\ \A v \in DOMAIN workers : workers[v].pc = "done"
         /\ load_profile(files, workers[w].profile).exc = "none")
            => workers[w].profile \in DOMAIN WorkerCache(w)

\* two workers of generate both found the identifier not cached, both
\* loaded and both stored; both have returned their prompt
C14_Witness ==
    /\ \A w \in {1, 2} :
        /\ w \in DOMAIN workers
        /\ workers[w].op = "generate"
        /\ workers[w].pc = "done"
        /\ workers[w].loaded.exc = "none"
        /\ workers[w].loaded.val = UndefProfile
        /\ workers[w].result.exc = "none"
    /\ workers[1].seed # workers[2].seed
    /\ workers[1].result # workers[2].result

====
